---- MODULE Spec2Model ----
(***************************************************************************)
(* Model of ku-research/main.go: an in-memory store of research papers     *)
(* behind one mutex, the /get-research and /add-paper handlers, and the    *)
(* per-paper access check hasAccess over the workspace and site            *)
(* membership lists.                                                       *)
(*                                                                         *)
(* The descriptive fields that no branch of the code reads (CoverImage,    *)
(* PublishedYear, Field, Classifications, DOI, Journal) are left out of    *)
(* the paper records; Title, Authors and Abstract are kept because the     *)
(* /add-paper handler validates them.                                      *)
(***************************************************************************)
EXTENDS Integers, Sequences, FiniteSets, TLC

VARIABLES papers, workspaceUsers, siteUsers, mu,
          pc, newPaper, userID, allPapers, accessiblePapers, response,
          body, returnedBefore,
          paper, subject, checked, granted,
          server, mainpc, loop_i, err, log

storeVars == <<papers, workspaceUsers, siteUsers, mu>>
\* returnedBefore[r] is history: the /add-paper requests that had been
\* answered 201 when the /get-research request r arrived
reqVars   == <<pc, newPaper, userID, allPapers, accessiblePapers, response, body,
               returnedBefore>>
checkVars == <<paper, subject, checked, granted>>
\* the server goroutine and main's registration loop (loop_i is the loop
\* variable i of main); log is the history of
\* the loop: "ok" / "fail" per sdk.Register call, "wait" per 2 s sleep
bootVars  == <<server, mainpc, loop_i, err, log>>
vars      == <<papers, workspaceUsers, siteUsers, mu,
               pc, newPaper, userID, allPapers, accessiblePapers, response,
               body, returnedBefore, paper, subject, checked, granted,
               server, mainpc, loop_i, err, log>>

(***************************************************************************)
(* Bounds                                                                  *)
(***************************************************************************)
\* number of HTTP requests served concurrently by the fiber worker pool
MaxReq == 2
\* largest subject id drawn as an input (0 is the zero value of an absent
\* userId; the seeded memberships mention subjects 1..4)
MaxUser == 5

\* longest membership list drawn as an input of the access check, besides
\* the seeded lists
MaxMembers == 1

Req == 1..MaxReq
Subjects == 0..MaxUser

NoReq == 0

\* maxRetries := 5
maxRetries == 5

(***************************************************************************)
(* fmt.Sprintf("%d", n) for n >= 0: the decimal string of n                *)
(***************************************************************************)
DigitChar == <<"0", "1", "2", "3", "4", "5", "6", "7", "8", "9">>

RECURSIVE Sprintf_d(_)
Sprintf_d(n) ==
    IF n < 10 THEN DigitChar[n + 1]
    ELSE Sprintf_d(n \div 10) \o DigitChar[(n % 10) + 1]

(***************************************************************************)
(* Seed data                                                               *)
(***************************************************************************)
getSamplePapers ==
    << [ID |-> "1", Title |-> "t", Authors |-> "a", Abstract |-> "b",
        UserID |-> 1, IsPublic |-> TRUE, PublicOption |-> "everyone",
        WorkspaceSiteID |-> 0] >>

getSampleWorkspaceUsers ==
    << [WorkspaceID |-> 1, UserID |-> 2],
       [WorkspaceID |-> 3, UserID |-> 2],
       [WorkspaceID |-> 1, UserID |-> 3],
       [WorkspaceID |-> 3, UserID |-> 3],
       [WorkspaceID |-> 9, UserID |-> 3],
       [WorkspaceID |-> 1, UserID |-> 4],
       [WorkspaceID |-> 3, UserID |-> 4],
       [WorkspaceID |-> 8, UserID |-> 4] >>

getSampleSiteUsers == <<1, 2, 3, 4>>

\* the zero value of ResearchPaper (var newPaper ResearchPaper)
ZeroPaper ==
    [ID |-> "", Title |-> "", Authors |-> "", Abstract |-> "",
     UserID |-> 0, IsPublic |-> FALSE, PublicOption |-> "",
     WorkspaceSiteID |-> 0]

(***************************************************************************)
(* hasAccess: the branches in the order of the code; the two membership    *)
(* loops scan the lists front to back and return at the first match.       *)
(***************************************************************************)
\* a scan that stops one entry short of the end of the list
RECURSIVE SiteLoop_StopsShort(_, _, _)
SiteLoop_StopsShort(su, i, uid) ==
    IF i >= Len(su) THEN FALSE
    ELSE IF su[i] = uid THEN TRUE
    ELSE SiteLoop_StopsShort(su, i + 1, uid)

RECURSIVE SiteLoop(_, _, _)
SiteLoop(su, i, uid) ==
    IF i > Len(su) THEN FALSE
    ELSE IF su[i] = uid THEN TRUE
    ELSE SiteLoop(su, i + 1, uid)

\* a scan that matches the subject and forgets to compare the workspace id
RECURSIVE WorkspaceLoop_AnyWorkspace(_, _, _, _)
WorkspaceLoop_AnyWorkspace(wu, i, wsid, uid) ==
    IF i > Len(wu) THEN FALSE
    ELSE IF wu[i].UserID = uid THEN TRUE
    ELSE WorkspaceLoop_AnyWorkspace(wu, i + 1, wsid, uid)

RECURSIVE WorkspaceLoop(_, _, _, _)
WorkspaceLoop(wu, i, wsid, uid) ==
    IF i > Len(wu) THEN FALSE
    ELSE IF wu[i].WorkspaceID = wsid /\ wu[i].UserID = uid THEN TRUE
    ELSE WorkspaceLoop(wu, i + 1, wsid, uid)

\* the sharing flag tested before the owner
hasAccess_SharedFirst(p, uid) ==
    IF ~p.IsPublic THEN FALSE
    ELSE IF p.UserID = uid THEN TRUE
    ELSE IF p.PublicOption = "everyone" THEN TRUE
    ELSE IF p.PublicOption = "site" THEN SiteLoop(siteUsers, 1, uid)
    ELSE IF p.PublicOption = "workspace"
         THEN WorkspaceLoop(workspaceUsers, 1, p.WorkspaceSiteID, uid)
    ELSE FALSE

\* the sharing flag not tested at all
hasAccess_NoSharedCheck(p, uid) ==
    IF p.UserID = uid THEN TRUE
    ELSE IF p.PublicOption = "everyone" THEN TRUE
    ELSE IF p.PublicOption = "site" THEN SiteLoop(siteUsers, 1, uid)
    ELSE IF p.PublicOption = "workspace"
         THEN WorkspaceLoop(workspaceUsers, 1, p.WorkspaceSiteID, uid)
    ELSE FALSE

\* the "everyone" branch left out
hasAccess_NoEveryone(p, uid) ==
    IF p.UserID = uid THEN TRUE
    ELSE IF ~p.IsPublic THEN FALSE
    ELSE IF p.PublicOption = "site" THEN SiteLoop(siteUsers, 1, uid)
    ELSE IF p.PublicOption = "workspace"
         THEN WorkspaceLoop(workspaceUsers, 1, p.WorkspaceSiteID, uid)
    ELSE FALSE

\* scope tags compared without regard to case (strings.EqualFold)
EqualFold(a, b) == a = b \/ (a = "Site" /\ b = "site")

hasAccess_FoldCase(p, uid) ==
    IF p.UserID = uid THEN TRUE
    ELSE IF ~p.IsPublic THEN FALSE
    ELSE IF EqualFold(p.PublicOption, "everyone") THEN TRUE
    ELSE IF EqualFold(p.PublicOption, "site") THEN SiteLoop(siteUsers, 1, uid)
    ELSE IF EqualFold(p.PublicOption, "workspace")
         THEN WorkspaceLoop(workspaceUsers, 1, p.WorkspaceSiteID, uid)
    ELSE FALSE

hasAccess(p, uid) ==
    IF p.UserID = uid THEN TRUE
    ELSE IF ~p.IsPublic THEN FALSE
    ELSE IF p.PublicOption = "everyone" THEN TRUE
    ELSE IF p.PublicOption = "site" THEN SiteLoop(siteUsers, 1, uid)
    ELSE IF p.PublicOption = "workspace"
         THEN WorkspaceLoop(workspaceUsers, 1, p.WorkspaceSiteID, uid)
    ELSE FALSE

(***************************************************************************)
(* filterAccessiblePapers: range over allPapers, append the accessible     *)
(***************************************************************************)
\* a loop that leaves the last paper of the slice out
RECURSIVE FilterLoop_StopsShort(_, _, _, _)
FilterLoop_StopsShort(all, i, uid, acc) ==
    IF i >= Len(all) THEN acc
    ELSE FilterLoop_StopsShort(all, i + 1, uid,
                    IF hasAccess(all[i], uid) THEN Append(acc, all[i]) ELSE acc)

RECURSIVE FilterLoop(_, _, _, _)
FilterLoop(all, i, uid, acc) ==
    IF i > Len(all) THEN acc
    ELSE FilterLoop(all, i + 1, uid,
                    IF hasAccess(all[i], uid) THEN Append(acc, all[i]) ELSE acc)

\* a result slice shared by all requests (a package-level accessiblePapers
\* that is never reset): the loop appends to what earlier queries left in it
LongestResult ==
    LET n == CHOOSE n \in { Len(accessiblePapers[r]) : r \in Req } :
                 \A r \in Req : Len(accessiblePapers[r]) <= n
    IN  accessiblePapers[CHOOSE r \in Req : Len(accessiblePapers[r]) = n]

filterAccessiblePapers_SharedResult(all, uid) == FilterLoop(all, 1, uid, LongestResult)

filterAccessiblePapers(all, uid) == FilterLoop(all, 1, uid, << >>)

\* a generateID that formats the length without adding one
generateID_NoPlusOne == Sprintf_d(Len(papers))

\* generateID's return value, evaluated while mu is held
generateID == Sprintf_d(Len(papers) + 1)

(***************************************************************************)
(* Inputs                                                                  *)
(***************************************************************************)
\* scope tags a request body may carry: the three the code knows, the empty
\* tag, and a differently-cased spelling
Options == {"", "everyone", "site", "workspace", "Site"}
\* workspace ids a request body may carry (0 is the omitted field)
Workspaces == {0, 1, 9}
\* ids a request body may carry ("" is the omitted field)
IDs == {"", "2"}

\* visibility settings of the request bodies sent to the running server
RequestPolicies ==
    { [UserID |-> 2, IsPublic |-> FALSE, PublicOption |-> "everyone", WorkspaceSiteID |-> 0],
      [UserID |-> 1, IsPublic |-> TRUE,  PublicOption |-> "site",      WorkspaceSiteID |-> 0],
      [UserID |-> 1, IsPublic |-> TRUE,  PublicOption |-> "workspace", WorkspaceSiteID |-> 9],
      [UserID |-> 2, IsPublic |-> TRUE,  PublicOption |-> "",          WorkspaceSiteID |-> 0] }

RequestBodies ==
    { [ID |-> id, Title |-> t, Authors |-> a, Abstract |-> b,
       UserID |-> v.UserID, IsPublic |-> v.IsPublic,
       PublicOption |-> v.PublicOption, WorkspaceSiteID |-> v.WorkspaceSiteID] :
      id \in IDs, t \in {"", "t"}, a \in {"", "a"}, b \in {"", "b"},
      v \in RequestPolicies }

\* every paper the access check is applied to
AllPapers ==
    [ID : {"1"}, Title : {"t"}, Authors : {"a"}, Abstract : {"b"},
     UserID : Subjects, IsPublic : BOOLEAN, PublicOption : Options,
     WorkspaceSiteID : Workspaces]

SeqsUpTo(S, n) == UNION { [1..k -> S] : k \in 0..n }

SiteLists == {getSampleSiteUsers} \cup SeqsUpTo({1, MaxUser}, MaxMembers + 1)

WorkspaceLists ==
    {getSampleWorkspaceUsers}
    \cup SeqsUpTo([WorkspaceID : Workspaces, UserID : {2, MaxUser}], MaxMembers)

NoResponse == [status |-> 0, paper |-> ZeroPaper, papers |-> << >>]

(***************************************************************************)
(* The running server: Init is the state after main's seeding             *)
(***************************************************************************)
Init ==
    /\ papers = getSamplePapers
    /\ workspaceUsers = getSampleWorkspaceUsers
    /\ siteUsers = getSampleSiteUsers
    /\ mu = NoReq
    /\ pc = [r \in Req |-> "idle"]
    /\ newPaper = [r \in Req |-> ZeroPaper]
    /\ body = [r \in Req |-> ZeroPaper]
    /\ returnedBefore = [r \in Req |-> {}]
    /\ userID = [r \in Req |-> 0]
    /\ allPapers = [r \in Req |-> << >>]
    /\ accessiblePapers = [r \in Req |-> << >>]
    /\ response = [r \in Req |-> NoResponse]
    /\ paper = ZeroPaper
    /\ subject = 0
    /\ checked = FALSE
    /\ granted = FALSE
    /\ server = "listening"
    /\ mainpc = "sleep"
    /\ loop_i = 0
    /\ err = "none"
    /\ log = << >>

\* /get-research: c.BodyParser fails
GetResearchBadBody(r) ==
    /\ server = "listening"
    /\ pc[r] = "idle"
    /\ response' = [response EXCEPT ![r] = [NoResponse EXCEPT !.status = 400]]
    /\ pc' = [pc EXCEPT ![r] = "done"]
    /\ UNCHANGED <<storeVars, newPaper, body, returnedBefore, userID, allPapers, accessiblePapers, checkVars, bootVars>>

\* /get-research: body parsed, userID := request.UserID
GetResearchAccept(r) ==
    /\ server = "listening"
    /\ pc[r] = "idle"
    /\ \E uid \in Subjects : userID' = [userID EXCEPT ![r] = uid]
    /\ returnedBefore' = [returnedBefore EXCEPT
                             ![r] = { q \in Req : response[q].status = 201 }]
    /\ pc' = [pc EXCEPT ![r] = "get_lock"]
    /\ UNCHANGED <<storeVars, newPaper, body, allPapers, accessiblePapers, response, checkVars, bootVars>>

\* mu.Lock()
GetResearchLock(r) ==
    /\ pc[r] = "get_lock"
    /\ mu = NoReq
    /\ mu' = r
    /\ pc' = [pc EXCEPT ![r] = "get_filter"]
    /\ UNCHANGED <<papers, workspaceUsers, siteUsers, newPaper, body, returnedBefore, userID,
                   allPapers, accessiblePapers, response, checkVars, bootVars>>

\* a handler that filters the sample data instead of the stored papers
GetResearchFilter_SampleData(r) ==
    /\ pc[r] = "get_filter"
    /\ allPapers' = [allPapers EXCEPT ![r] = getSamplePapers]
    /\ accessiblePapers' =
           [accessiblePapers EXCEPT
               ![r] = filterAccessiblePapers(getSamplePapers, userID[r])]
    /\ pc' = [pc EXCEPT ![r] = "get_unlock"]
    /\ UNCHANGED <<storeVars, newPaper, body, returnedBefore, userID, response,
                   checkVars, bootVars>>

\* a handler that assigns the filtered slice to the package variable papers
GetResearchFilter_OverwritesStore(r) ==
    /\ pc[r] = "get_filter"
    /\ allPapers' = [allPapers EXCEPT ![r] = papers]
    /\ accessiblePapers' =
           [accessiblePapers EXCEPT ![r] = filterAccessiblePapers(papers, userID[r])]
    /\ papers' = filterAccessiblePapers(papers, userID[r])
    /\ pc' = [pc EXCEPT ![r] = "get_unlock"]
    /\ UNCHANGED <<workspaceUsers, siteUsers, mu, newPaper, body, returnedBefore,
                   userID, response, checkVars, bootVars>>

\* accessiblePapers := filterAccessiblePapers(papers, userID)
GetResearchFilter(r) ==
    /\ pc[r] = "get_filter"
    /\ allPapers' = [allPapers EXCEPT ![r] = papers]
    /\ accessiblePapers' =
           [accessiblePapers EXCEPT ![r] = filterAccessiblePapers(papers, userID[r])]
    /\ pc' = [pc EXCEPT ![r] = "get_unlock"]
    /\ UNCHANGED <<storeVars, newPaper, body, returnedBefore, userID, response, checkVars, bootVars>>

\* mu.Unlock()
GetResearchUnlock(r) ==
    /\ pc[r] = "get_unlock"
    /\ mu' = NoReq
    /\ pc' = [pc EXCEPT ![r] = "get_respond"]
    /\ UNCHANGED <<papers, workspaceUsers, siteUsers, newPaper, body, returnedBefore, userID,
                   allPapers, accessiblePapers, response, checkVars, bootVars>>

\* return c.JSON({"papers": accessiblePapers})
GetResearchRespond(r) ==
    /\ pc[r] = "get_respond"
    /\ response' = [response EXCEPT ![r] =
                       [NoResponse EXCEPT !.status = 200, !.papers = accessiblePapers[r]]]
    /\ pc' = [pc EXCEPT ![r] = "done"]
    /\ UNCHANGED <<storeVars, newPaper, body, returnedBefore, userID, allPapers, accessiblePapers, checkVars, bootVars>>

\* /add-paper: c.BodyParser fails
AddPaperBadBody(r) ==
    /\ server = "listening"
    /\ pc[r] = "idle"
    /\ response' = [response EXCEPT ![r] = [NoResponse EXCEPT !.status = 400]]
    /\ pc' = [pc EXCEPT ![r] = "done"]
    /\ UNCHANGED <<storeVars, newPaper, body, returnedBefore, userID, allPapers, accessiblePapers, checkVars, bootVars>>

MissingRequired(p) == p.Title = "" \/ p.Authors = "" \/ p.Abstract = ""

\* a handler that appends the paper before it validates it
AddPaperMissingFields_StoresFirst(r) ==
    /\ server = "listening"
    /\ pc[r] = "idle"
    /\ mu = NoReq
    /\ \E p \in RequestBodies :
          /\ MissingRequired(p)
          /\ papers' = Append(papers, p)
    /\ response' = [response EXCEPT ![r] = [NoResponse EXCEPT !.status = 400]]
    /\ pc' = [pc EXCEPT ![r] = "done"]
    /\ UNCHANGED <<workspaceUsers, siteUsers, mu, newPaper, body, returnedBefore,
                   userID, allPapers, accessiblePapers, checkVars, bootVars>>

\* /add-paper: body parsed, a required field is empty
AddPaperMissingFields(r) ==
    /\ server = "listening"
    /\ pc[r] = "idle"
    /\ \E p \in RequestBodies : MissingRequired(p)
    /\ response' = [response EXCEPT ![r] = [NoResponse EXCEPT !.status = 400]]
    /\ pc' = [pc EXCEPT ![r] = "done"]
    /\ UNCHANGED <<storeVars, newPaper, body, returnedBefore, userID, allPapers, accessiblePapers, checkVars, bootVars>>

\* a handler that calls generateID whether or not the body carries an id
AddPaperAccept_AlwaysGenerates(r) ==
    /\ server = "listening"
    /\ pc[r] = "idle"
    /\ \E p \in RequestBodies :
          /\ ~MissingRequired(p)
          /\ body' = [body EXCEPT ![r] = p]
          /\ newPaper' = [newPaper EXCEPT ![r] = p]
          /\ pc' = [pc EXCEPT ![r] = "gen_lock"]
    /\ UNCHANGED <<storeVars, userID, allPapers, accessiblePapers, response,
                   returnedBefore, checkVars, bootVars>>

\* /add-paper: body parsed and valid; branch on newPaper.ID == ""
AddPaperAccept(r) ==
    /\ server = "listening"
    /\ pc[r] = "idle"
    /\ \E p \in RequestBodies :
          /\ ~MissingRequired(p)
          /\ body' = [body EXCEPT ![r] = p]
          /\ newPaper' = [newPaper EXCEPT ![r] = p]
          /\ pc' = [pc EXCEPT ![r] = IF p.ID = "" THEN "gen_lock" ELSE "add_lock"]
    /\ UNCHANGED <<storeVars, userID, allPapers, accessiblePapers, response,
                   returnedBefore, checkVars, bootVars>>

\* generateID: mu.Lock()
GenerateIDLock(r) ==
    /\ pc[r] = "gen_lock"
    /\ mu = NoReq
    /\ mu' = r
    /\ pc' = [pc EXCEPT ![r] = "gen_return"]
    /\ UNCHANGED <<papers, workspaceUsers, siteUsers, newPaper, body, returnedBefore, userID,
                   allPapers, accessiblePapers, response, checkVars, bootVars>>

\* a generateID without the deferred mu.Unlock()
GenerateIDReturn_KeepsLock(r) ==
    /\ pc[r] = "gen_return"
    /\ newPaper' = [newPaper EXCEPT ![r].ID = generateID]
    /\ pc' = [pc EXCEPT ![r] = "add_lock"]
    /\ UNCHANGED <<storeVars, body, returnedBefore, userID,
                   allPapers, accessiblePapers, response, checkVars, bootVars>>

\* generateID: the return value is computed, the deferred mu.Unlock() runs,
\* and the caller stores the value in newPaper.ID
GenerateIDReturn(r) ==
    /\ pc[r] = "gen_return"
    /\ newPaper' = [newPaper EXCEPT ![r].ID = generateID]
    /\ mu' = NoReq
    /\ pc' = [pc EXCEPT ![r] = "add_lock"]
    /\ UNCHANGED <<papers, workspaceUsers, siteUsers, body, returnedBefore, userID,
                   allPapers, accessiblePapers, response, checkVars, bootVars>>

\* /add-paper: mu.Lock()
AddPaperLock(r) ==
    /\ pc[r] = "add_lock"
    /\ mu = NoReq
    /\ mu' = r
    /\ pc' = [pc EXCEPT ![r] = "add_append"]
    /\ UNCHANGED <<papers, workspaceUsers, siteUsers, newPaper, body, returnedBefore, userID,
                   allPapers, accessiblePapers, response, checkVars, bootVars>>

\* an append that skips a paper whose id is already stored
AddPaperAppend_SkipKnownID(r) ==
    /\ pc[r] = "add_append"
    /\ papers' = IF \E i \in 1..Len(papers) : papers[i].ID = newPaper[r].ID
                 THEN papers
                 ELSE Append(papers, newPaper[r])
    /\ pc' = [pc EXCEPT ![r] = "add_unlock"]
    /\ UNCHANGED <<workspaceUsers, siteUsers, mu, newPaper, body, returnedBefore, userID,
                   allPapers, accessiblePapers, response, checkVars, bootVars>>

\* an append that puts the new paper in front of the stored ones
AddPaperAppend_Prepend(r) ==
    /\ pc[r] = "add_append"
    /\ papers' = <<newPaper[r]>> \o papers
    /\ pc' = [pc EXCEPT ![r] = "add_unlock"]
    /\ UNCHANGED <<workspaceUsers, siteUsers, mu, newPaper, body, returnedBefore,
                   userID, allPapers, accessiblePapers, response, checkVars, bootVars>>

\* an append that writes the new paper over the last stored one
AddPaperAppend_ReplacesLast(r) ==
    /\ pc[r] = "add_append"
    /\ papers' = [papers EXCEPT ![Len(papers)] = newPaper[r]]
    /\ pc' = [pc EXCEPT ![r] = "add_unlock"]
    /\ UNCHANGED <<workspaceUsers, siteUsers, mu, newPaper, body, returnedBefore,
                   userID, allPapers, accessiblePapers, response, checkVars, bootVars>>

\* papers = append(papers, newPaper)
AddPaperAppend(r) ==
    /\ pc[r] = "add_append"
    /\ papers' = Append(papers, newPaper[r])
    /\ pc' = [pc EXCEPT ![r] = "add_unlock"]
    /\ UNCHANGED <<workspaceUsers, siteUsers, mu, newPaper, body, returnedBefore, userID,
                   allPapers, accessiblePapers, response, checkVars, bootVars>>

\* mu.Unlock()
AddPaperUnlock(r) ==
    /\ pc[r] = "add_unlock"
    /\ mu' = NoReq
    /\ pc' = [pc EXCEPT ![r] = "add_respond"]
    /\ UNCHANGED <<papers, workspaceUsers, siteUsers, newPaper, body, returnedBefore, userID,
                   allPapers, accessiblePapers, response, checkVars, bootVars>>

\* return c.Status(201).JSON({"paper": newPaper})
AddPaperRespond(r) ==
    /\ pc[r] = "add_respond"
    /\ response' = [response EXCEPT ![r] =
                       [NoResponse EXCEPT !.status = 201, !.paper = newPaper[r]]]
    /\ pc' = [pc EXCEPT ![r] = "done"]
    /\ UNCHANGED <<storeVars, newPaper, body, returnedBefore, userID, allPapers, accessiblePapers, checkVars, bootVars>>

\* one step of the handler serving request r
HandlerStep(r) ==
    \/ GetResearchBadBody(r)
    \/ GetResearchAccept(r)
    \/ GetResearchLock(r)
    \/ GetResearchFilter(r)
    \/ GetResearchUnlock(r)
    \/ GetResearchRespond(r)
    \/ AddPaperBadBody(r)
    \/ AddPaperMissingFields(r)
    \/ AddPaperAccept(r)
    \/ GenerateIDLock(r)
    \/ GenerateIDReturn(r)
    \/ AddPaperLock(r)
    \/ AddPaperAppend(r)
    \/ AddPaperUnlock(r)
    \/ AddPaperRespond(r)

Next == \E r \in Req : HandlerStep(r)

Spec == Init /\ [][Next]_vars

(***************************************************************************)
(* The access check as a function of its inputs: a paper, a subject and    *)
(* the two membership lists it reads.                                      *)
(***************************************************************************)
InitAccess ==
    /\ papers = getSamplePapers
    /\ workspaceUsers = getSampleWorkspaceUsers
    /\ siteUsers = getSampleSiteUsers
    /\ mu = NoReq
    /\ pc = [r \in Req |-> "idle"]
    /\ newPaper = [r \in Req |-> ZeroPaper]
    /\ body = [r \in Req |-> ZeroPaper]
    /\ returnedBefore = [r \in Req |-> {}]
    /\ userID = [r \in Req |-> 0]
    /\ allPapers = [r \in Req |-> << >>]
    /\ accessiblePapers = [r \in Req |-> << >>]
    /\ response = [r \in Req |-> NoResponse]
    /\ paper \in AllPapers
    /\ subject \in Subjects
    /\ checked = FALSE
    /\ granted = FALSE
    /\ server = "listening"
    /\ mainpc = "sleep"
    /\ loop_i = 0
    /\ err = "none"
    /\ log = << >>

\* one call hasAccess(paper, subject)
CheckAccess ==
    /\ ~checked
    /\ checked' = TRUE
    /\ granted' = hasAccess(paper, subject)
    /\ UNCHANGED <<storeVars, reqVars, paper, subject, bootVars>>

NextAccess == CheckAccess

\* the check over the membership lists main seeds
SpecAccess == InitAccess /\ [][NextAccess]_vars

\* the check with the membership lists drawn as inputs too
InitResolver ==
    /\ papers = getSamplePapers
    /\ workspaceUsers \in WorkspaceLists
    /\ siteUsers \in SiteLists
    /\ mu = NoReq
    /\ pc = [r \in Req |-> "idle"]
    /\ newPaper = [r \in Req |-> ZeroPaper]
    /\ body = [r \in Req |-> ZeroPaper]
    /\ returnedBefore = [r \in Req |-> {}]
    /\ userID = [r \in Req |-> 0]
    /\ allPapers = [r \in Req |-> << >>]
    /\ accessiblePapers = [r \in Req |-> << >>]
    /\ response = [r \in Req |-> NoResponse]
    /\ paper \in AllPapers
    /\ subject \in Subjects
    /\ checked = FALSE
    /\ granted = FALSE
    /\ server = "listening"
    /\ mainpc = "sleep"
    /\ loop_i = 0
    /\ err = "none"
    /\ log = << >>

SpecResolver == InitResolver /\ [][NextAccess]_vars

(***************************************************************************)
(* Startup: the server goroutine (app.Listen) and main's registration      *)
(* loop.  Each sdk.Register call either returns nil or an error; the one-  *)
(* second and two-second sleeps are steps that take effect when they end.  *)
(* log.Fatalf in the server goroutine ends the process.                    *)
(***************************************************************************)
\* a server that starts listening only once the registration loop is over
ServerListens_AfterHandshake ==
    /\ server = "starting"
    /\ mainpc = "select"
    /\ server' = "listening"
    /\ UNCHANGED <<storeVars, reqVars, checkVars, mainpc, loop_i, err, log>>

\* app.Listen(":8083") is bound and serves
ServerListens ==
    /\ server = "starting"
    /\ server' = "listening"
    /\ UNCHANGED <<storeVars, reqVars, checkVars, mainpc, loop_i, err, log>>

\* app.Listen returns an error: log.Fatalf exits the process
ServerListenFails ==
    /\ server = "starting"
    /\ server' = "exited"
    /\ UNCHANGED <<storeVars, reqVars, checkVars, mainpc, loop_i, err, log>>

\* a main that runs the registration loop again from select {}
StartupSleepDone_Retriggers ==
    /\ server # "exited"
    /\ mainpc \in {"sleep", "select"}
    /\ mainpc' = "register"
    /\ loop_i' = 0
    /\ UNCHANGED <<storeVars, reqVars, checkVars, server, err, log>>

\* time.Sleep(1 * time.Second) is over; the loop starts with i = 0
StartupSleepDone ==
    /\ server # "exited"
    /\ mainpc = "sleep"
    /\ mainpc' = "register"
    /\ loop_i' = 0
    /\ UNCHANGED <<storeVars, reqVars, checkVars, server, err, log>>

\* a loop that goes on to the next attempt after a successful one
RegisterSucceeds_NoBreak ==
    /\ server # "exited"
    /\ mainpc = "register"
    /\ err' = "nil"
    /\ log' = Append(log, "ok")
    /\ IF loop_i < maxRetries - 1
       THEN mainpc' = "register" /\ loop_i' = loop_i + 1
       ELSE mainpc' = "select" /\ loop_i' = loop_i
    /\ UNCHANGED <<storeVars, reqVars, checkVars, server>>

\* sdk.Register returns nil: break, then select {}
RegisterSucceeds ==
    /\ server # "exited"
    /\ mainpc = "register"
    /\ err' = "nil"
    /\ log' = Append(log, "ok")
    /\ mainpc' = "select"
    /\ UNCHANGED <<storeVars, reqVars, checkVars, server, loop_i>>

\* a loop that ends the process when the last attempt has failed
RegisterFails_Fatal ==
    /\ server # "exited"
    /\ mainpc = "register"
    /\ err' = "error"
    /\ log' = Append(log, "fail")
    /\ IF loop_i < maxRetries - 1
       THEN mainpc' = "wait" /\ server' = server
       ELSE mainpc' = "select" /\ server' = "exited"
    /\ UNCHANGED <<storeVars, reqVars, checkVars, loop_i>>

\* a loop that sleeps after every failed attempt, the last one included
RegisterFails_AlwaysWaits ==
    /\ server # "exited"
    /\ mainpc = "register"
    /\ err' = "error"
    /\ log' = Append(log, "fail")
    /\ mainpc' = "wait"
    /\ UNCHANGED <<storeVars, reqVars, checkVars, server, loop_i>>

\* sdk.Register returns an error: sleep if i < maxRetries-1, else the loop
\* ends and main blocks in select {}
RegisterFails ==
    /\ server # "exited"
    /\ mainpc = "register"
    /\ err' = "error"
    /\ log' = Append(log, "fail")
    /\ mainpc' = IF loop_i < maxRetries - 1 THEN "wait" ELSE "select"
    /\ UNCHANGED <<storeVars, reqVars, checkVars, server, loop_i>>

\* time.Sleep(2 * time.Second) is over; next iteration of the loop
BackoffDone ==
    /\ server # "exited"
    /\ mainpc = "wait"
    /\ log' = Append(log, "wait")
    /\ IF loop_i + 1 < maxRetries
       THEN mainpc' = "register" /\ loop_i' = loop_i + 1
       ELSE mainpc' = "select" /\ loop_i' = loop_i
    /\ UNCHANGED <<storeVars, reqVars, checkVars, server, err>>

\* the requests served while the process starts up
BootReq == {1}

InitBoot ==
    /\ papers = getSamplePapers
    /\ workspaceUsers = getSampleWorkspaceUsers
    /\ siteUsers = getSampleSiteUsers
    /\ mu = NoReq
    /\ pc = [r \in Req |-> "idle"]
    /\ newPaper = [r \in Req |-> ZeroPaper]
    /\ body = [r \in Req |-> ZeroPaper]
    /\ returnedBefore = [r \in Req |-> {}]
    /\ userID = [r \in Req |-> 0]
    /\ allPapers = [r \in Req |-> << >>]
    /\ accessiblePapers = [r \in Req |-> << >>]
    /\ response = [r \in Req |-> NoResponse]
    /\ paper = ZeroPaper
    /\ subject = 0
    /\ checked = FALSE
    /\ granted = FALSE
    /\ server = "starting"
    /\ mainpc = "sleep"
    /\ loop_i = 0
    /\ err = "none"
    /\ log = << >>

NextBoot ==
    \/ ServerListens
    \/ ServerListenFails
    \/ StartupSleepDone
    \/ RegisterSucceeds
    \/ RegisterFails
    \/ BackoffDone
    \/ \E r \in BootReq : HandlerStep(r)

SpecBoot == InitBoot /\ [][NextBoot]_vars

(***************************************************************************)
(* Inserts one at a time, ids omitted                                      *)
(***************************************************************************)
\* the steps of the /get-research handler
QueryStep(r) ==
    \/ GetResearchBadBody(r)
    \/ GetResearchAccept(r)
    \/ GetResearchLock(r)
    \/ GetResearchFilter(r)
    \/ GetResearchUnlock(r)
    \/ GetResearchRespond(r)

\* the steps of the /add-paper handler
InsertStep(r) ==
    \/ AddPaperBadBody(r)
    \/ AddPaperMissingFields(r)
    \/ AddPaperAccept(r)
    \/ GenerateIDLock(r)
    \/ GenerateIDReturn(r)
    \/ AddPaperLock(r)
    \/ AddPaperAppend(r)
    \/ AddPaperUnlock(r)
    \/ AddPaperRespond(r)

\* positions of a request inside the /add-paper handler
AddStates ==
    {"gen_lock", "gen_return", "add_lock", "add_append", "add_unlock", "add_respond"}

\* a client that sends its next insert only after the previous one was
\* answered, and never sends an id; queries are not restricted
NextSeq ==
    \E r \in Req :
        \/ QueryStep(r)
        \/ /\ \A q \in Req \ {r} : pc[q] \notin AddStates
           /\ InsertStep(r)
           /\ body'[r].ID = ""

SpecSeq == Init /\ [][NextSeq]_vars

(***************************************************************************)
(* Fair scheduling of the handlers                                         *)
(***************************************************************************)
\* mu.Lock() returning, in either handler or in generateID
Acquire(r) ==
    \/ GetResearchLock(r)
    \/ GenerateIDLock(r)
    \/ AddPaperLock(r)

\* every other step of a request that has been accepted
Progress(r) ==
    \/ GetResearchFilter(r)
    \/ GetResearchUnlock(r)
    \/ GetResearchRespond(r)
    \/ GenerateIDReturn(r)
    \/ AddPaperAppend(r)
    \/ AddPaperUnlock(r)
    \/ AddPaperRespond(r)

\* the Go scheduler runs every runnable goroutine, and sync.Mutex hands the
\* lock to a waiter that has been starved (starvation mode)
Fairness == \A r \in Req : WF_vars(Progress(r)) /\ SF_vars(Acquire(r))

\* the handlers as in Next; neither handler reads the payload to decide a
\* lock step, so the clients of this specification send one sharing policy
\* (with and without an id) and query as subject 0 or 2
NextFair ==
    \E r \in Req :
        /\ HandlerStep(r)
        /\ body'[r].PublicOption = ""
        /\ userID'[r] \in {0, 2}

SpecFair == Init /\ [][NextFair]_vars /\ Fairness

(***************************************************************************)
(* Helpers of the properties                                               *)
(***************************************************************************)
Range(f) == { f[i] : i \in DOMAIN f }

Count(seq, d) == Cardinality({ i \in DOMAIN seq : seq[i] = d })

\* r is an /add-paper request that passed validation
AddAccepted(r) == pc[r] # "idle" /\ ~MissingRequired(body[r])

\* r is an accepted /add-paper request that arrived without an id and has
\* been given one by generateID
IdAssigned(r) ==
    /\ AddAccepted(r)
    /\ body[r].ID = ""
    /\ pc[r] \in {"add_lock", "add_append", "add_unlock", "add_respond", "done"}

\* the requests answered 201
Inserted == { r \in Req : response[r].status = 201 }

AllAddsReturned == \A r \in Req : AddAccepted(r) => pc[r] = "done"

\* the positions of all whose paper the subject may see, and the k-th of them
Kept(all, uid) == { i \in 1..Len(all) : hasAccess(all[i], uid) }

Nth(K, k) == CHOOSE i \in K : Cardinality({ j \in K : j <= i }) = k

\* res is all restricted to the papers uid may see, in the order of all
IsAccessibleSubsequence(res, all, uid) ==
    /\ Len(res) = Cardinality(Kept(all, uid))
    /\ \A k \in 1..Len(res) : res[k] = all[Nth(Kept(all, uid), k)]

SharedAs(scope) == checked /\ paper.IsPublic /\ paper.PublicOption = scope

(***************************************************************************)
(* C1: any two /add-paper requests that arrived with an empty id and were  *)
(* given an id by the store hold different ids.                            *)
(***************************************************************************)
C1_AssignedIdsDistinct ==
    \A r1, r2 \in Req :
        (r1 # r2 /\ IdAssigned(r1) /\ IdAssigned(r2))
            => newPaper[r1].ID # newPaper[r2].ID

(***************************************************************************)
(* C2: once every accepted /add-paper request has returned, the collection *)
(* holds the seeded papers plus one entry per request answered 201: its    *)
(* length is the seeded length plus their number, and every returned paper *)
(* occurs as often as it was seeded and inserted.                          *)
(***************************************************************************)
C2_NoInsertLost ==
    AllAddsReturned =>
        /\ Len(papers) = Len(getSamplePapers) + Cardinality(Inserted)
        /\ \A r \in Inserted :
              Count(papers, response[r].paper) =
                  Count(getSamplePapers, response[r].paper)
                  + Cardinality({ q \in Inserted : response[q].paper = response[r].paper })

C2_Witness ==
    /\ AllAddsReturned
    /\ Cardinality(Inserted) >= 2
    /\ \E r \in Inserted : body[r].ID = ""
    /\ Len(papers) = Len(getSamplePapers) + Cardinality(Inserted)

(***************************************************************************)
(* C3: no two stored papers have the same id.                              *)
(***************************************************************************)
C3_StoredIdsUnique ==
    \A i, j \in 1..Len(papers) : i # j => papers[i].ID # papers[j].ID

(***************************************************************************)
(* C4: the access check grants the owner of a paper, whatever the sharing  *)
(* flag, the scope tag, the scope qualifier and the membership lists.      *)
(***************************************************************************)
C4_OwnerAlwaysGranted ==
    (checked /\ paper.UserID = subject) => granted

C4_Witness ==
    /\ checked
    /\ paper.UserID = subject
    /\ ~paper.IsPublic
    /\ subject \notin Range(siteUsers)
    /\ granted

(***************************************************************************)
(* C5: the access check denies a paper that is not shared to every subject *)
(* other than its owner, whatever its scope tag and qualifier.             *)
(***************************************************************************)
C5_PrivateDeniedToOthers ==
    (checked /\ ~paper.IsPublic /\ paper.UserID # subject) => ~granted

C5_Witness ==
    /\ checked
    /\ ~paper.IsPublic
    /\ paper.UserID # subject
    /\ paper.PublicOption = "everyone"
    /\ subject \in Range(siteUsers)
    /\ ~granted

(***************************************************************************)
(* C6: the access check grants a paper shared with scope "everyone" to     *)
(* every subject.                                                          *)
(***************************************************************************)
C6_EveryoneGranted ==
    SharedAs("everyone") => granted

C6_Witness ==
    /\ SharedAs("everyone")
    /\ paper.UserID # subject
    /\ subject \notin Range(siteUsers)
    /\ \A i \in 1..Len(workspaceUsers) : workspaceUsers[i].UserID # subject
    /\ granted

(***************************************************************************)
(* C7 as stated: for a paper shared with scope "site" the access check     *)
(* returns, for every subject, whether the subject is in the site list.    *)
(***************************************************************************)
C7_SiteEqualsMembership ==
    SharedAs("site") => (granted <=> subject \in Range(siteUsers))

(***************************************************************************)
(* C7 amended: for a paper shared with scope "site" the access check       *)
(* returns, for every subject other than the owner, whether the subject is *)
(* in the site list (the owner is granted by the owner rule).              *)
(***************************************************************************)
C7_SiteEqualsMembershipForOthers ==
    (SharedAs("site") /\ paper.UserID # subject)
        => (granted <=> subject \in Range(siteUsers))

C7_Witness ==
    /\ SharedAs("site")
    /\ paper.UserID # subject
    /\ subject = siteUsers[Len(siteUsers)]
    /\ granted

(***************************************************************************)
(* C8 as stated: for a paper shared with scope "workspace" and qualifier W *)
(* the access check returns, for every subject S, whether the pair (W, S)  *)
(* is in the workspace list.                                               *)
(***************************************************************************)
C8_WorkspaceEqualsMembership ==
    SharedAs("workspace") =>
        (granted <=>
            [WorkspaceID |-> paper.WorkspaceSiteID, UserID |-> subject]
                \in Range(workspaceUsers))

(***************************************************************************)
(* C8 amended: for a paper shared with scope "workspace" and qualifier W   *)
(* the access check returns, for every subject S other than the owner,     *)
(* whether the pair (W, S) is in the workspace list; membership of S in    *)
(* another workspace grants nothing.                                       *)
(***************************************************************************)
C8_WorkspaceEqualsMembershipForOthers ==
    (SharedAs("workspace") /\ paper.UserID # subject) =>
        (granted <=>
            [WorkspaceID |-> paper.WorkspaceSiteID, UserID |-> subject]
                \in Range(workspaceUsers))

C8_Witness ==
    /\ SharedAs("workspace")
    /\ paper.UserID # subject
    /\ \E i \in 1..Len(workspaceUsers) :
          /\ workspaceUsers[i].UserID = subject
          /\ workspaceUsers[i].WorkspaceID # paper.WorkspaceSiteID
    /\ [WorkspaceID |-> paper.WorkspaceSiteID, UserID |-> subject]
           \notin Range(workspaceUsers)
    /\ ~granted

(***************************************************************************)
(* C9: the access check denies a shared paper whose scope tag is none of   *)
(* "everyone", "site", "workspace" (empty or spelled in another case) to   *)
(* every subject other than the owner; the result is a plain boolean.      *)
(***************************************************************************)
C9_UnknownScopeDenied ==
    /\ granted \in BOOLEAN
    /\ (/\ checked
        /\ paper.IsPublic
        /\ paper.PublicOption \notin {"everyone", "site", "workspace"}
        /\ paper.UserID # subject) => ~granted

C9_Witness ==
    /\ checked
    /\ paper.IsPublic
    /\ paper.PublicOption = "Site"
    /\ paper.UserID # subject
    /\ subject \in Range(siteUsers)
    /\ ~granted

(***************************************************************************)
(* C10: the papers a /get-research request computes and returns are the    *)
(* papers of the store, as it is while the request holds the lock, that the*)
(* access check grants to the subject: all of them, no others, none twice, *)
(* in the order of the store.                                              *)
(***************************************************************************)
C10_ResultIsAccessibleSubsequence ==
    \A r \in Req :
        /\ pc[r] = "get_unlock" =>
              IsAccessibleSubsequence(accessiblePapers[r], papers, userID[r])
        /\ response[r].status = 200 =>
              IsAccessibleSubsequence(response[r].papers, allPapers[r], userID[r])

C10_Witness ==
    \E r \in Req :
        /\ response[r].status = 200
        /\ Len(allPapers[r]) >= 2
        /\ Len(response[r].papers) >= 1
        /\ Len(response[r].papers) < Len(allPapers[r])

(***************************************************************************)
(* Helpers of the handshake properties.  The four states of the handshake  *)
(* are positions of main: before the loop, in it, and in select {} after a *)
(* nil or a non-nil last error.                                            *)
(***************************************************************************)
NumAttempts == Cardinality({ j \in DOMAIN log : log[j] # "wait" })

NumWaits == Cardinality({ j \in DOMAIN log : log[j] = "wait" })

AllFailed == \A j \in DOMAIN log : log[j] # "ok"

Idle == mainpc = "sleep"

Attempting == mainpc \in {"register", "wait"}

Registered == mainpc = "select" /\ err = "nil"

GaveUp == mainpc = "select" /\ err = "error"

\* request r is not made to wait by anything but another request's lock
Served(r) ==
    /\ pc[r] = "idle" => (ENABLED GetResearchAccept(r) /\ ENABLED AddPaperAccept(r))
    /\ pc[r] \notin {"idle", "done"} => (ENABLED HandlerStep(r) \/ mu \in Req \ {r})

IsPrefix(s, t) == Len(s) <= Len(t) /\ s = SubSeq(t, 1, Len(s))

\* r is a /get-research request that has computed its result
Filtered(r) ==
    \/ pc[r] \in {"get_unlock", "get_respond"}
    \/ response[r].status = 200

C12_State ==
    /\ NumAttempts <= maxRetries
    /\ (mainpc = "select" /\ AllFailed) => (NumAttempts = maxRetries /\ GaveUp)
    /\ GaveUp => (AllFailed /\ NumAttempts = maxRetries)
    /\ server = "listening" => \A r \in BootReq : Served(r)

C12_AllFailGivesUpAfterFive ==
    /\ []C12_State
    /\ [][server = "listening" => server' = "listening"]_vars

C12_Witness ==
    /\ GaveUp
    /\ NumAttempts = 5
    /\ server = "listening"
    /\ \E r \in BootReq : response[r].status = 201

(***************************************************************************)
(* C13: a successful attempt is the last entry of the loop's history: when *)
(* the k-th attempt succeeds after k-1 failures there are exactly k        *)
(* attempts, main is in select {} with a nil error (Registered), and no    *)
(* attempt or wait follows.                                                *)
(***************************************************************************)
C13_SuccessEndsHandshake ==
    /\ \A j \in DOMAIN log : log[j] = "ok" => (j = Len(log) /\ Registered)
    /\ Registered => (log # << >> /\ log[Len(log)] = "ok")
    /\ (log # << >> /\ log[Len(log)] = "ok") =>
           NumAttempts = Cardinality({ j \in DOMAIN log : log[j] = "fail" }) + 1
    /\ NumAttempts <= maxRetries

C13_Witness ==
    /\ log = <<"fail", "wait", "fail", "wait", "ok">>
    /\ Registered
    /\ NumAttempts = 3

(***************************************************************************)
(* C14: a request answered 400 adds nothing: the step that answers it      *)
(* leaves the collection, the lock and every id untouched, no stored paper *)
(* lacks a required field, the collection holds the seed plus one paper    *)
(* per appended request, and a rejected request has no id.                 *)
(***************************************************************************)
C14_State ==
    /\ \A k \in 1..Len(papers) : ~MissingRequired(papers[k])
    /\ Len(papers) = Len(getSamplePapers)
          + Cardinality({ r \in Req : \/ pc[r] \in {"add_unlock", "add_respond"}
                                      \/ response[r].status = 201 })
    /\ \A r \in Req : response[r].status = 400 => newPaper[r].ID = ""

C14_Step ==
    \A r \in Req :
        (response[r].status # 400 /\ response'[r].status = 400)
            => (papers' = papers /\ mu' = mu /\ newPaper' = newPaper)

C14_RejectedInsertLeavesStore ==
    /\ []C14_State
    /\ [][C14_Step]_vars

C14_Witness ==
    /\ \E r \in Req : response[r].status = 400 /\ pc[r] = "done"
    /\ \E q \in Req : response[q].status = 201
    /\ Len(papers) = Len(getSamplePapers) + 1

(***************************************************************************)
(* C15: the registration loop never holds the store lock and never changes *)
(* the state of a request or of the store; listening does not wait for the *)
(* loop, and while the process listens every request can arrive and        *)
(* proceed in every state of the loop.                                     *)
(***************************************************************************)
C15_State ==
    /\ mu \in Req \cup {NoReq}
    /\ server = "starting" => ENABLED ServerListens
    /\ server = "listening" => \A r \in BootReq : Served(r)

C15_Step ==
    (mainpc' # mainpc \/ log' # log) => UNCHANGED <<storeVars, reqVars>>

C15_HandshakeNeverBlocksRequests ==
    /\ []C15_State
    /\ [][C15_Step]_vars

C15_Witness ==
    /\ mainpc = "wait"
    /\ server = "listening"
    /\ \E r \in BootReq : pc[r] = "add_append" /\ mu = r

(***************************************************************************)
(* C16: the collection a /get-research request filters is the whole        *)
(* collection as it is at the moment of the filter step, it stays a prefix *)
(* of the collection whatever is inserted later, and the result is the     *)
(* access filter of exactly that prefix.                                   *)
(***************************************************************************)
C16_SnapshotIsPrefix ==
    \A r \in Req :
        /\ pc[r] = "get_unlock" => allPapers[r] = papers
        /\ Filtered(r) =>
              /\ IsPrefix(allPapers[r], papers)
              /\ Len(allPapers[r]) >= Len(getSamplePapers)
              /\ IsAccessibleSubsequence(accessiblePapers[r], allPapers[r], userID[r])

C16_Witness ==
    \E r \in Req :
        /\ response[r].status = 200
        /\ Len(allPapers[r]) < Len(papers)
        /\ IsPrefix(allPapers[r], papers)

(***************************************************************************)
(* C17: a /get-research request that arrives after an /add-paper request   *)
(* has been answered 201 returns the paper of that answer, if its subject  *)
(* may see it.                                                             *)
(***************************************************************************)
C17_ReadYourWrites ==
    \A r \in Req :
        response[r].status = 200 =>
            \A q \in returnedBefore[r] :
                hasAccess(response[q].paper, userID[r])
                    => response[q].paper \in Range(response[r].papers)

C17_Witness ==
    \E r \in Req :
        /\ response[r].status = 200
        /\ \E q \in returnedBefore[r] :
              /\ hasAccess(response[q].paper, userID[r])
              /\ response[q].paper.UserID # userID[r]
              /\ response[q].paper \in Range(response[r].papers)

(***************************************************************************)
(* C18: no request holds the store lock while the access check is          *)
(* evaluated for it.                                                       *)
(***************************************************************************)
C18_NoLockDuringAccessCheck ==
    \A r \in Req : ~(pc[r] = "get_filter" /\ mu = r)

(***************************************************************************)
(* C19: a registration attempt has been made only if the server is         *)
(* listening.                                                              *)
(***************************************************************************)
C19_AttemptOnlyWhenListening ==
    NumAttempts > 0 => server = "listening"

(***************************************************************************)
(* C20: a wait follows a failed attempt and nothing else, every attempt    *)
(* but the first directly follows one wait, there is no wait after the     *)
(* fifth failure nor after a success, and a run in which every attempt     *)
(* failed ends with 5 attempts and 4 waits.                                *)
(***************************************************************************)
C20_BackoffPlacement ==
    /\ \A j \in DOMAIN log : log[j] = "wait" => (j > 1 /\ log[j - 1] = "fail")
    /\ \A j \in DOMAIN log : (log[j] # "wait" /\ j > 1) => log[j - 1] = "wait"
    /\ NumWaits <= maxRetries - 1
    /\ mainpc = "wait" =>
          (log # << >> /\ log[Len(log)] = "fail" /\ NumAttempts < maxRetries)
    /\ (mainpc = "select" /\ log # << >>) => log[Len(log)] # "wait"
    /\ (mainpc = "select" /\ AllFailed) =>
          (NumAttempts = maxRetries /\ NumWaits = maxRetries - 1)

C20_Witness ==
    /\ mainpc = "select"
    /\ AllFailed
    /\ NumAttempts = 5
    /\ NumWaits = 4

(***************************************************************************)
(* C21: Registered and GaveUp are absorbing: from a state in which main is *)
(* in select {} no step changes the position of main, its last error, the  *)
(* loop variable or the history of attempts and waits, whatever the        *)
(* requests and the server goroutine do.                                   *)
(***************************************************************************)
C21_TerminalStatesAbsorbing ==
    [][(Registered \/ GaveUp) =>
          (/\ mainpc' = mainpc
           /\ err' = err
           /\ loop_i' = loop_i
           /\ log' = log)]_vars

C21_Witness ==
    /\ GaveUp
    /\ NumAttempts = maxRetries
    /\ \E r \in BootReq : pc[r] = "add_append"

C23_State ==
    \A r \in Req :
        /\ pc[r] \in {"add_unlock", "add_respond"} => newPaper[r] \in Range(papers)
        /\ response[r].status = 201 =>
              /\ response[r].paper = newPaper[r]
              /\ response[r].paper \in Range(papers)
              /\ [response[r].paper EXCEPT !.ID = ""] = [body[r] EXCEPT !.ID = ""]
              /\ body[r].ID # "" => response[r].paper.ID = body[r].ID
              /\ body[r].ID = "" => response[r].paper.ID # ""

C23_Step ==
    \A r \in Req : newPaper[r].ID # "" => newPaper'[r].ID = newPaper[r].ID

C23_IdAssignedOnlyWhenOmitted ==
    /\ []C23_State
    /\ [][C23_Step]_vars

C23_Witness ==
    \E r1, r2 \in Req :
        /\ response[r1].status = 201
        /\ response[r2].status = 201
        /\ body[r1].ID = ""
        /\ response[r1].paper.ID = "3"
        /\ body[r2].ID = "2"
        /\ response[r2].paper.ID = "2"

(***************************************************************************)
(* C24: every step leaves the collection as it is or adds exactly one      *)
(* paper at its end.                                                       *)
(***************************************************************************)
C24_AppendOnly ==
    [][\/ papers' = papers
       \/ /\ Len(papers') = Len(papers) + 1
          /\ SubSeq(papers', 1, Len(papers)) = papers]_vars

C24_Witness ==
    /\ Len(papers) = Len(getSamplePapers) + 2
    /\ IsPrefix(getSamplePapers, papers)

(***************************************************************************)
(* C25: a request that waits for the lock is never its holder, the holder  *)
(* is always at a step it can take without any other lock or I/O, and      *)
(* under fair scheduling every accepted insert or query is answered.       *)
(***************************************************************************)
LockWait == {"get_lock", "gen_lock", "add_lock"}

Holding == {"get_filter", "get_unlock", "gen_return", "add_append", "add_unlock"}

C25_Safe ==
    /\ \A r \in Req : pc[r] \in LockWait => mu # r
    /\ \A r \in Req : pc[r] \in Holding <=> mu = r
    /\ mu # NoReq => ENABLED Progress(mu)
    /\ \A r \in Req : pc[r] \notin {"idle", "done"} =>
           \E q \in Req : ENABLED (Progress(q) \/ Acquire(q))

C25_DeadlockFree ==
    /\ []C25_Safe
    /\ \A r \in Req : (pc[r] \notin {"idle", "done"}) ~> (pc[r] = "done")

C25_Witness ==
    \E r, q \in Req :
        /\ pc[r] = "add_lock"
        /\ body[r].ID = ""
        /\ mu = q
        /\ pc[q] = "get_filter"

(***************************************************************************)
(* C26: no step of a query changes the collection or a membership list,    *)
(* and the two membership lists hold their seeded values in every          *)
(* reachable state.                                                        *)
(***************************************************************************)
GetStates == {"get_lock", "get_filter", "get_unlock", "get_respond"}

C26_QueryStepTaken ==
    \E r \in Req :
        /\ pc'[r] # pc[r]
        /\ \/ pc[r] \in GetStates
           \/ pc'[r] \in GetStates

C26_QueriesSideEffectFree ==
    /\ [](workspaceUsers = getSampleWorkspaceUsers /\ siteUsers = getSampleSiteUsers)
    /\ [][C26_QueryStepTaken =>
              /\ papers' = papers
              /\ workspaceUsers' = workspaceUsers
              /\ siteUsers' = siteUsers]_vars

C26_Witness ==
    \E r \in Req :
        /\ response[r].status = 200
        /\ Len(papers) = Len(getSamplePapers) + 1
        /\ Len(response[r].papers) < Len(papers)
        /\ allPapers[r] = papers

(***************************************************************************)
(* C27: with inserts one at a time and ids omitted, the paper stored at    *)
(* position k carries the decimal string of k, and an id that has been     *)
(* generated and not yet stored is the decimal string of the number of     *)
(* stored papers plus one; the stored ids are strictly increasing and      *)
(* pairwise different.                                                     *)
(***************************************************************************)
Decimal == <<"1", "2", "3", "4", "5", "6", "7", "8", "9", "10">>

C27_SequentialIdsCount ==
    /\ \A k \in 1..Len(papers) : papers[k].ID = Decimal[k]
    /\ \A j, k \in 1..Len(papers) : j # k => papers[j].ID # papers[k].ID
    /\ \A r \in Req :
           pc[r] \in {"add_lock", "add_append"} =>
               newPaper[r].ID = Decimal[Len(papers) + 1]

C27_Witness ==
    /\ Len(papers) = Len(getSamplePapers) + 2
    /\ papers[2].ID = "2"
    /\ papers[3].ID = "3"
    /\ \A r \in Req : response[r].status = 201 /\ body[r].ID = ""

====
